---- MODULE Spec2Model ----
(***************************************************************************)
(* Artemis Global Tracker, Example14_SimpleTracker.ino: the power-aware    *)
(* sequencer loop(), the RTC tick handler am_rtc_isr() and the helpers     *)
(* get_vbat(), ISBDCallback(), gnssON(), gnssOFF() and setup().            *)
(*                                                                         *)
(* Units.  Voltages are integers in millivolts.  millis() readings are     *)
(* counted in poll intervals (one unit = the 100 ms delay of a wait loop)  *)
(* and wrap modulo ClockMod, the stand-in for 2^32.  The three timeouts    *)
(* and INTERVAL are scaled down to a few units so that every reachable     *)
(* state can be enumerated.  The float variables latitude, longitude and   *)
(* speed are held as exact single precision values; tempC is held in 0.1 C *)
(* and pascals in Pa.                                                      *)
(***************************************************************************)
EXTENDS Integers, Sequences, FiniteSets, TLC

\* ------------------------------------------------------------------ bounds
\* INTERVAL (seconds between wake-ups), scaled down from 15 * 60.
INTERVAL == 2
\* GNSS_timeout, CHG_timeout (minutes) and TOPUP_timeout (seconds) of the
\* source, each converted to poll intervals and scaled down.
GNSS_timeout == 3
CHG_timeout == 2
TOPUP_timeout == 2
\* millis() wraps at ClockMod (2^32 in the source).
ClockMod == 8
\* One loop iteration lasts 1..MaxPollDur poll intervals (the fixed delay
\* plus the time the driver call takes).
MaxPollDur == 2
\* Largest number of ISBDCallback invocations during one blocking modem call.
MaxCallbacks == 1
\* Cycles are started only while iterationCounter is below this cap.
MaxIterations == 2

\* ------------------------------------------------------- program constants
loop_init == 0
start_GPS == 1
read_GPS == 2
read_pressure == 3
start_LTC3225 == 4
wait_LTC3225 == 5
start_9603 == 6
zzz == 7
wake == 8

\* #define VBAT_LOW 2.8, in millivolts
VBAT_LOW == 2800

\* analogRead(busVoltagePin) values the monitor can return (14 bit):
\* 7014 -> 2799 mV (just low), 7015 -> 2800 mV (just not low), 10146 -> 4049 mV
AdcReadings == {7014, 7015, 10146}

\* ------------------------------------------------- single precision floats
\* A float is held exactly, as sign, mantissa and binary scale: its value
\* is man / 2^s (man * 2^(-s) when s is negative).  The operators cover
\* zero and magnitudes from 2^-4 up to 2^24, which is where latitude,
\* longitude, speed, pressure, temperature and voltage lie.
RECURSIVE Pow2(_)
Pow2(n) == IF n = 0 THEN 1 ELSE 2 * Pow2(n - 1)

RECURSIVE Pow10(_)
Pow10(n) == IF n = 0 THEN 1 ELSE 10 * Pow10(n - 1)

RECURSIVE BitLen(_)
BitLen(n) == IF n = 0 THEN 0 ELSE 1 + BitLen(n \div 2)

Abs(i) == IF i < 0 THEN -i ELSE i

\* Round to nearest, ties to even: q with remainder r of a division by d.
RoundEven(q, r, d) ==
  IF 2 * r > d \/ (2 * r = d /\ q % 2 = 1) THEN q + 1 ELSE q

\* An integer held in a long or passed as a double: exact.
IntVal(i) == [neg |-> i < 0, man |-> Abs(i), s |-> 0]

\* (float)i for a 32 bit integer i: 24 bits of mantissa are kept.
F32Int(i) ==
  LET a == Abs(i)
      drop == BitLen(a) - 24
  IN  IF drop <= 0
        THEN IntVal(i)
        ELSE [neg |-> i < 0,
              man |-> RoundEven(a \div Pow2(drop), a % Pow2(drop), Pow2(drop)),
              s |-> -drop]

\* Binary long division: mantissa bits are produced until 24 are held, and
\* the remainder decides the rounding.  (The next mantissa and remainder
\* are bound as values m and r before the recursive call.)
RECURSIVE Mantissa(_, _, _, _)
Mantissa(man, rem, d, s) ==
  IF man >= Pow2(23)
    THEN [man |-> RoundEven(man, rem, d), s |-> s]
    ELSE LET bit == IF 2 * rem >= d THEN 1 ELSE 0
         IN  CHOOSE result \in {Mantissa(m, r, d, s + 1) :
                                  m \in {2 * man + bit},
                                  r \in {2 * rem - bit * d}} : TRUE

\* The float nearest to n / d, for integers n and d > 0.
F32Ratio(n, d) ==
  IF n = 0 THEN IntVal(0)
  ELSE LET m == Mantissa(Abs(n) \div d, Abs(n) % d, d, 0)
       IN  [neg |-> n < 0, man |-> m.man, s |-> m.s]

\* f / d stored in a float, for an integer-valued float f: the division is
\* done in double precision, whose error is far below the float's.
F32Div(f, d) ==
  F32Ratio((IF f.neg THEN -1 ELSE 1) * f.man * Pow2(-f.s), d)

\* ------------------------------------------------------ number formatting
Digit(d) == <<"0", "1", "2", "3", "4", "5", "6", "7", "8", "9">>[d + 1]

RECURSIVE Dec(_)
Dec(n) == IF n < 10 THEN Digit(n) ELSE Dec(n \div 10) \o Digit(n % 10)

\* %d
FmtInt(i) == IF i < 0 THEN "-" \o Dec(-i) ELSE Dec(i)

RECURSIVE PadLeft(_, _, _)
PadLeft(str, width, fill) ==
  IF Len(str) >= width THEN str ELSE PadLeft(fill \o str, width, fill)

\* %02d
Fmt02(i) == IF i < 0 THEN "-" \o PadLeft(Dec(-i), 1, "0")
                     ELSE PadLeft(Dec(i), 2, "0")

\* The first k decimal digits of r / p, and what is left of r.
RECURSIVE DecimalDigits(_, _, _, _)
DecimalDigits(acc, r, p, k) ==
  IF k = 0 THEN [digits |-> acc, rem |-> r]
  ELSE DecimalDigits(10 * acc + (10 * r) \div p, (10 * r) % p, p, k - 1)

\* val in fixed notation with prec decimals, correctly rounded,
\* right-aligned in at least width characters.
Fixed(val, width, prec) ==
  LET p == IF val.s > 0 THEN Pow2(val.s) ELSE 1
      whole == IF val.s > 0 THEN val.man \div p ELSE val.man * Pow2(-val.s)
      dd == DecimalDigits(0, IF val.s > 0 THEN val.man % p ELSE 0, p, prec)
      scaled == RoundEven(whole * Pow10(prec) + dd.digits, dd.rem, p)
      text == Dec(scaled \div Pow10(prec)) \o
              (IF prec > 0
                 THEN "." \o PadLeft(Dec(scaled % Pow10(prec)), prec, "0")
                 ELSE "")
  IN  PadLeft(IF val.neg THEN "-" \o text ELSE text, width, " ")

\* dtostrf(val, width, prec, buf).  (The argument is bound as a value v.)
dtostrf(val, width, prec) ==
  CHOOSE text \in {Fixed(v, width, prec) : v \in {val}} : TRUE

\* The global defaults of the fix variables, which the two "default values"
\* blocks of loop() write again.
DefaultFix ==
  [year |-> 1970, month |-> 1, day |-> 1, hour |-> 0, minute |-> 0,
   second |-> 0, milliseconds |-> 0, latitude |-> IntVal(0),
   longitude |-> IntVal(0), altitude |-> 0, speed |-> IntVal(0),
   course |-> 0, pdop |-> 0, satellites |-> 0]

\* Navigation solutions the GNSS driver's getters can report, in the
\* driver's raw units (lat/lon 1e-7 deg, altitude mm, speed mm/s, heading
\* 1e-5 deg, pDOP 0.01).
NavSolutions ==
  { [ms |-> 0, sec |-> 0, min |-> 30, hour |-> 9, day |-> 15, month |-> 12,
     year |-> 2020, lat |-> 511234560, lon |-> -12345670, altMSL |-> 123456,
     gSpeed |-> 1500, SIV |-> 8, heading |-> 9000000, pDOP |-> 215],
    [ms |-> 250, sec |-> 59, min |-> 59, hour |-> 23, day |-> 31, month |-> 1,
     year |-> 2021, lat |-> -337654321, lon |-> 1512345678, altMSL |-> -1999,
     gSpeed |-> 0, SIV |-> 4, heading |-> 35999999, pDOP |-> 99] }

\* Fix types getFixType() can report: 0 none, 2 2D, 3 3D.
FixTypes == {0, 2, 3}

\* MS8607 readings: temperature in 0.1 C, pressure in 0.1 hPa.
SensorReadings == { [temperature |-> 155, pressure |-> 10130] }

\* Status codes of the modem driver.
ModemFailures == {"ISBD_CANCELLED", "ISBD_PROTOCOL_ERROR"}

VARIABLES
  loop_step,         \* int loop_step
  pc,                \* position inside the running case of loop()
  gnssEN_mode,       \* pinMode of gnssEN
  gnssEN,            \* level written to gnssEN
  iridiumPwrEN,      \* level of iridiumPwrEN
  superCapChgEN,     \* level of superCapChgEN
  iridiumSleep,      \* level of the 9603N ON/OFF line
  busVoltageMonEN,   \* level of busVoltageMonEN
  vbat,              \* float vbat, in mV
  fix,               \* year .. milliseconds, latitude .. pdop
  pascals, tempC,    \* EnvironmentRecord
  fixType, PGOOD, err,
  iterationCounter,
  seconds_count, interval_alarm,
  ms, tnow,          \* last millis() reading and the loop's start reading
  waited,            \* history: poll intervals since the running loop began
  gnss_ok,           \* what myGPS.begin() returned last
  vbat_step,         \* history: the loop_step in which vbat was last sampled
  cycle_path,        \* history: the states entered since the last Init, Init first
  since_send,        \* history: ticks since the last sendSBDText, capped
  modem_calls,       \* history: the modem driver calls of this cycle, in order
  outBuffer,         \* char outBuffer[120], the text handed to sendSBDText()
  pgood_low_seen,    \* history: superCapPGOOD was low during the top-up wait
  ticks,             \* history: runs of am_rtc_isr since setup(), modulo INTERVAL
  sensor_calls,      \* history: the MS8607 driver calls of this cycle, in order
  fix_written        \* history: the fix variables were assigned in this cycle

vars == <<loop_step, pc, gnssEN_mode, gnssEN, iridiumPwrEN, superCapChgEN,
          iridiumSleep, busVoltageMonEN, vbat, fix, pascals, tempC, fixType,
          PGOOD, err, iterationCounter, seconds_count, interval_alarm, ms,
          tnow, waited, gnss_ok, vbat_step, cycle_path, since_send,
          modem_calls, outBuffer, pgood_low_seen, ticks,
          sensor_calls, fix_written>>

pins == <<gnssEN_mode, gnssEN, iridiumPwrEN, superCapChgEN, iridiumSleep,
          busVoltageMonEN>>
timer == <<seconds_count, interval_alarm, since_send, ticks>>
records == <<fix, pascals, tempC>>

\* ----------------------------------------------------------------- helpers
Min(a, b) == IF a < b THEN a ELSE b

\* C integer division, which truncates toward zero.
CDiv(a, b) == IF a >= 0 THEN a \div b ELSE -((-a) \div b)

\* get_vbat(): analogRead * 3.0 * 1.09 * 2.0 / 16384.0, in whole millivolts.
get_vbat(raw) == (raw * 6540) \div 16384

LowVoltage(v) == v < VBAT_LOW

\* The GNSS domain is powered when gnssEN is driven low (via Q2).
GnssEnabled == gnssEN_mode = "OUTPUT" /\ gnssEN = "LOW"
ModemEnabled == iridiumPwrEN = "HIGH"
ChargerEnabled == superCapChgEN = "HIGH"

\* Variant: the difference is taken as a signed number, without the
\* reduction modulo the clock period.
Elapsed_signed == ms - tnow

\* millis() - tnow in unsigned arithmetic.
Elapsed == (ms - tnow) % ClockMod

\* The fix variables as the 3D-fix branch of read_GPS assigns them.
CaptureFix(s) ==
  [year |-> s.year, month |-> s.month, day |-> s.day, hour |-> s.hour,
   minute |-> s.min, second |-> s.sec, milliseconds |-> s.ms,
   latitude |-> F32Div(F32Int(s.lat), 10000000),
   longitude |-> F32Div(F32Int(s.lon), 10000000),
   altitude |-> CDiv(s.altMSL, 1000),
   speed |-> F32Div(F32Int(s.gSpeed), 1000),
   course |-> CDiv(s.heading, 10000000), pdop |-> CDiv(s.pDOP, 100),
   satellites |-> s.SIV]

\* The fix variables a 3D fix can leave behind.
CapturedFixes == {CaptureFix(s) : s \in NavSolutions}

\* Raw latitudes (1e-7 degrees) from 51.1234550 to 51.1234569 degrees.
NearbyLatitudes == {511234550 + k : k \in 0..19}

\* The fix variables holding 2020-12-15 09:30:00, longitude -1.234567,
\* altitude 123, speed 1.50, course 90, pdop 2 and 8 satellites, with the
\* latitude stored from the raw value lat.
FixAt(lat) ==
  [year |-> 2020, month |-> 12, day |-> 15, hour |-> 9, minute |-> 30,
   second |-> 0, milliseconds |-> 0,
   latitude |-> F32Div(F32Int(lat), 10000000),
   longitude |-> F32Div(F32Int(-12345670), 10000000),
   altitude |-> 123, speed |-> F32Div(F32Int(1500), 1000),
   course |-> 90, pdop |-> 2, satellites |-> 8]

\* The values the fix variables take in the message assembly on its own.
FormatFixes ==
  {DefaultFix} \cup CapturedFixes \cup {FixAt(lat) : lat \in NearbyLatitudes}

\* The state a case of loop() leaves behind when it breaks to next.
Goto(next) ==
  /\ loop_step' = next
  /\ pc' = "top"
  /\ cycle_path' = IF next = loop_init THEN <<loop_init>>
                                         ELSE Append(cycle_path, next)

\* ------------------------------------------------------------------- Init
\* The globals' initialisers followed by setup().
Init ==
  /\ loop_step = loop_init
  /\ pc = "top"
  /\ gnssEN_mode = "INPUT_PULLUP"
  /\ gnssEN = "HIGH"
  /\ iridiumPwrEN = "LOW"
  /\ superCapChgEN = "LOW"
  /\ iridiumSleep = "LOW"
  /\ busVoltageMonEN = "LOW"
  /\ vbat = 5000
  /\ fix = DefaultFix
  /\ pascals = 0
  /\ tempC = 0
  /\ fixType = 0
  /\ PGOOD = FALSE
  /\ err = "ISBD_SUCCESS"
  /\ iterationCounter = 0
  /\ seconds_count = 0
  /\ ticks = 0
  /\ interval_alarm = FALSE
  /\ ms = 0
  /\ tnow = 0
  /\ waited = 0
  /\ gnss_ok = FALSE
  /\ vbat_step = -1
  /\ cycle_path = <<loop_init>>
  /\ since_send = INTERVAL
  /\ modem_calls = <<>>
  /\ sensor_calls = <<>>
  /\ fix_written = FALSE
  /\ outBuffer = ""
  /\ pgood_low_seen = FALSE

\* ------------------------------------------------------ power domain pins
\* gnssON(): digitalWrite(gnssEN, LOW); pinMode(gnssEN, OUTPUT).
gnssON == <<"OUTPUT", "LOW">>

\* Variant: the call of gnssOFF() is left out.
gnssOFF_omitted == <<gnssEN_mode, gnssEN>>

\* Variant: gnssOFF() toggles the enable pin instead of writing a level.
gnssOFF_toggle ==
  IF gnssEN = "HIGH" THEN <<"OUTPUT", "LOW">> ELSE <<"INPUT_PULLUP", "HIGH">>

\* gnssOFF(): pinMode(gnssEN, INPUT_PULLUP); digitalWrite(gnssEN, HIGH).
gnssOFF == <<"INPUT_PULLUP", "HIGH">>

SetGnss(p) == gnssEN_mode' = p[1] /\ gnssEN' = p[2]

\* ---------------------------------------------------------- voltage monitor
\* One call of get_vbat() in the running state; busVoltageMonEN is raised
\* and lowered again inside the call.
Sample(raw) ==
  /\ vbat' = get_vbat(raw)
  /\ vbat_step' = loop_step

\* ISBDCallback() calls made by one blocking modem call: the raw readings of
\* its get_vbat() calls, in order.  A callback that sees a low voltage
\* returns false, which makes the driver give up, so only the last reading
\* of a run can be low.
RECURSIVE SeqsUpTo(_, _)
SeqsUpTo(S, n) ==
  IF n = 0 THEN {<<>>}
  ELSE LET shorter == SeqsUpTo(S, n - 1)
       IN  shorter \cup {Append(q, x) : q \in {r \in shorter : Len(r) = n - 1}, x \in S}

ISBDCallback(raw) == ~LowVoltage(get_vbat(raw))

CallbackRuns ==
  {run \in SeqsUpTo(AdcReadings, MaxCallbacks) :
     \A i \in 1..Len(run) : i < Len(run) => ISBDCallback(run[i])}

Cancelled(run) == Len(run) > 0 /\ ~ISBDCallback(run[Len(run)])

\* vbat after the callbacks of a run.
AfterRun(run) ==
  IF Len(run) = 0
    THEN vbat' = vbat /\ vbat_step' = vbat_step
    ELSE Sample(run[Len(run)])

\* What a blocking modem call returns: ISBD_CANCELLED when a callback
\* returned false, else the outcome res of the exchange with the modem.
ModemResult(run, res) == IF Cancelled(run) THEN "ISBD_CANCELLED" ELSE res

ModemOutcomes == {"ISBD_SUCCESS"} \cup ModemFailures

\* An entry of modem_calls: the call and whether it returned ISBD_SUCCESS.
Called(call, e) == [call |-> call, ok |-> (e = "ISBD_SUCCESS")]

\* --------------------------------------------------------------- loop_init
LoopInit ==
  /\ loop_step = loop_init /\ pc = "top"
  /\ iterationCounter < MaxIterations
  /\ \E raw \in AdcReadings :
       /\ Sample(raw)
       /\ Goto(IF LowVoltage(vbat') THEN zzz ELSE start_GPS)
  /\ UNCHANGED <<pins, records, fixType, PGOOD, err, iterationCounter, timer,
                 ms, waited, tnow, gnss_ok,
                 modem_calls, sensor_calls, fix_written, outBuffer, pgood_low_seen>>

\* --------------------------------------------------------------- start_GPS
StartGPS_PowerOn ==
  /\ loop_step = start_GPS /\ pc = "top"
  /\ SetGnss(gnssON)
  /\ pc' = "settle"
  /\ UNCHANGED <<loop_step, iridiumPwrEN, superCapChgEN, iridiumSleep,
                 busVoltageMonEN, vbat, records, fixType, PGOOD, err,
                 iterationCounter, timer, ms, waited, tnow, gnss_ok, vbat_step,
                 cycle_path,
                 modem_calls, sensor_calls, fix_written, outBuffer, pgood_low_seen>>

\* Variant: the fix variables are not reset when myGPS.begin() fails.
GpsBeginFailedFix_kept == fix

\* The fix variables after myGPS.begin() failed.
GpsBeginFailedFix == DefaultFix

StartGPS_Check ==
  /\ loop_step = start_GPS /\ pc = "settle"
  /\ \E raw \in AdcReadings, begun \in BOOLEAN :
       /\ Sample(raw)
       /\ IF LowVoltage(vbat')
            THEN /\ SetGnss(gnssOFF)
                 /\ Goto(zzz)
                 /\ UNCHANGED <<fix, fix_written, gnss_ok>>
            ELSE /\ gnss_ok' = begun
                 /\ IF ~begun
                      THEN /\ fix' = GpsBeginFailedFix
                           /\ fix_written' = TRUE
                           /\ SetGnss(gnssOFF)
                           /\ Goto(read_pressure)
                      ELSE /\ Goto(read_GPS)
                           /\ UNCHANGED <<fix, fix_written, gnssEN_mode, gnssEN>>
  /\ UNCHANGED <<iridiumPwrEN, superCapChgEN, iridiumSleep, busVoltageMonEN,
                 pascals, tempC, fixType, PGOOD, err, iterationCounter, timer,
                 ms, waited, tnow,
                 modem_calls, sensor_calls, outBuffer, pgood_low_seen>>

\* ---------------------------------------------------------------- read_GPS
\* The millis() readings a wait loop starts from: just after the clock
\* wrapped, and one unit before it wraps.
ClockStarts == {0, ClockMod - 1}

\* for (unsigned long tnow = millis(); ...
StartClock ==
  /\ \E t \in ClockStarts : tnow' = t /\ ms' = t
  /\ waited' = 0

\* The loop variable goes out of scope.
StopClock == tnow' = 0 /\ ms' = 0 /\ waited' = 0

\* Variant: millis() stands still during the wait loops.
PollDelay_frozen == ms' = ms /\ waited' = waited

\* delay(100) at the end of an iteration, plus the time the body took.
PollDelay ==
  \E d \in 1..MaxPollDur : ms' = (ms + d) % ClockMod /\ waited' = waited + d

ReadGPS_Begin ==
  /\ loop_step = read_GPS /\ pc = "top"
  /\ fixType' = 0
  /\ StartClock
  /\ pc' = "loop"
  /\ UNCHANGED <<loop_step, pins, vbat, records, PGOOD, err, iterationCounter,
                 timer, gnss_ok, vbat_step, cycle_path,
                 modem_calls, sensor_calls, fix_written, outBuffer, pgood_low_seen>>

\* Variant: the timeout comparison is <= instead of <.
ReadGPS_Cond_late == fixType # 3 /\ Elapsed <= GNSS_timeout

\* Variant: the operands of the timeout comparison are swapped.
ReadGPS_Cond_swapped == fixType # 3 /\ GNSS_timeout < Elapsed

\* (fixType != 3) && (millis() - tnow < GNSS_timeout * 60UL * 1000UL)
ReadGPS_Cond == fixType # 3 /\ Elapsed < GNSS_timeout

\* Variant: the wait loops do not break on a low sample.
BreakOnLow_never(v) == FALSE

\* if (vbat < VBAT_LOW) break; inside a wait loop
BreakOnLow(v) == LowVoltage(v)

ReadGPS_Poll ==
  /\ loop_step = read_GPS /\ pc = "loop"
  /\ ReadGPS_Cond
  /\ \E ft \in FixTypes, raw \in AdcReadings :
       /\ fixType' = ft
       /\ Sample(raw)
  /\ IF BreakOnLow(vbat')
       THEN pc' = "done" /\ ms' = ms /\ waited' = waited
       ELSE pc' = "loop" /\ PollDelay
  /\ UNCHANGED <<loop_step, pins, records, PGOOD, err, iterationCounter,
                 timer, tnow, gnss_ok, cycle_path,
                 modem_calls, sensor_calls, fix_written, outBuffer, pgood_low_seen>>

ReadGPS_LoopExit ==
  /\ loop_step = read_GPS /\ pc = "loop"
  /\ ~ReadGPS_Cond
  /\ pc' = "done"
  /\ UNCHANGED <<loop_step, pins, vbat, records, fixType, PGOOD, err,
                 iterationCounter, timer, ms, waited, tnow, gnss_ok, vbat_step,
                 cycle_path,
                 modem_calls, sensor_calls, fix_written, outBuffer, pgood_low_seen>>

\* Variant: without a 3D fix only the position is reset.
NoFixFix_position ==
  [fix EXCEPT !.latitude = IntVal(0), !.longitude = IntVal(0),
              !.altitude = 0]

\* The fix variables when the loop ended without a 3D fix.
NoFixFix == DefaultFix

\* Variant: a low voltage in read_GPS does not end the cycle.
ReadGPS_LowNext_on == read_pressure

\* loop_step = zzz in the low-voltage branch after the loop of read_GPS.
ReadGPS_LowNext == zzz

ReadGPS_Outcome ==
  /\ loop_step = read_GPS /\ pc = "done"
  /\ IF LowVoltage(vbat)
       THEN Goto(ReadGPS_LowNext) /\ UNCHANGED <<fix, fix_written>>
       ELSE IF fixType = 3
         THEN /\ \E captured \in CapturedFixes : fix' = captured
              /\ fix_written' = TRUE
              /\ Goto(read_pressure)
         ELSE /\ fix' = NoFixFix
              /\ fix_written' = TRUE
              /\ Goto(read_pressure)
  /\ SetGnss(gnssOFF)
  /\ StopClock
  /\ UNCHANGED <<iridiumPwrEN, superCapChgEN, iridiumSleep, busVoltageMonEN,
                 vbat, pascals, tempC, fixType, PGOOD, err, iterationCounter,
                 timer, gnss_ok, vbat_step,
                 modem_calls, sensor_calls, outBuffer, pgood_low_seen>>

\* ----------------------------------------------------------- read_pressure
\* An entry of sensor_calls: the call and, for begin(), what it returned.
Sensed(call, ok) == [call |-> call, ok |-> ok]

\* Variant: barometricSensor.begin() is called a second time in any case.
BeginAttempts_always(first, again) ==
  <<Sensed("begin", first), Sensed("begin", again)>>

\* The calls of barometricSensor.begin(), which return first and, if there
\* is a second call, again.
BeginAttempts(first, again) ==
  IF first THEN <<Sensed("begin", TRUE)>>
           ELSE <<Sensed("begin", FALSE), Sensed("begin", again)>>

\* tempC = getTemperature(); pascals = getPressure() * 100.0
SensorReads == <<Sensed("getTemperature", TRUE), Sensed("getPressure", TRUE)>>

ReadPressure ==
  /\ loop_step = read_pressure /\ pc = "top"
  /\ \E first \in BOOLEAN, again \in BOOLEAN, r \in SensorReadings :
       LET attempts == BeginAttempts(first, again)
           barometricSensorOK == attempts[Len(attempts)].ok
       IN  IF ~barometricSensorOK
             THEN /\ pascals' = 0 /\ tempC' = 0
                  /\ sensor_calls' = attempts
             ELSE /\ tempC' = r.temperature /\ pascals' = r.pressure * 10
                  /\ sensor_calls' = attempts \o SensorReads
  /\ Goto(start_LTC3225)
  /\ UNCHANGED <<pins, vbat, fix, fixType, PGOOD, err, iterationCounter,
                 timer, ms, waited, tnow, gnss_ok, vbat_step,
                 modem_calls, outBuffer, pgood_low_seen, fix_written>>

\* ----------------------------------------------------------- start_LTC3225
StartLTC_Enable ==
  /\ loop_step = start_LTC3225 /\ pc = "top"
  /\ superCapChgEN' = "HIGH"
  /\ PGOOD' = FALSE
  /\ StartClock
  /\ pc' = "loop"
  /\ UNCHANGED <<loop_step, gnssEN_mode, gnssEN, iridiumPwrEN, iridiumSleep,
                 busVoltageMonEN, vbat, records, fixType, err,
                 iterationCounter, timer, gnss_ok, vbat_step, cycle_path,
                 modem_calls, sensor_calls, fix_written, outBuffer, pgood_low_seen>>

\* (!PGOOD) && (millis() - tnow < CHG_timeout * 60UL * 1000UL)
StartLTC_Cond == ~PGOOD /\ Elapsed < CHG_timeout

StartLTC_Poll ==
  /\ loop_step = start_LTC3225 /\ pc = "loop"
  /\ StartLTC_Cond
  /\ \E pgood \in BOOLEAN, raw \in AdcReadings :
       /\ PGOOD' = pgood
       /\ Sample(raw)
  /\ IF BreakOnLow(vbat')
       THEN pc' = "done" /\ ms' = ms /\ waited' = waited
       ELSE pc' = "loop" /\ PollDelay
  /\ UNCHANGED <<loop_step, pins, records, fixType, err, iterationCounter,
                 timer, tnow, gnss_ok, cycle_path,
                 modem_calls, sensor_calls, fix_written, outBuffer, pgood_low_seen>>

StartLTC_LoopExit ==
  /\ loop_step = start_LTC3225 /\ pc = "loop"
  /\ ~StartLTC_Cond
  /\ pc' = "done"
  /\ UNCHANGED <<loop_step, pins, vbat, records, fixType, PGOOD, err,
                 iterationCounter, timer, ms, waited, tnow, gnss_ok, vbat_step,
                 cycle_path,
                 modem_calls, sensor_calls, fix_written, outBuffer, pgood_low_seen>>

\* Variant: the outcome of start_LTC3225 does not look at the voltage.
StartLTC_Next_novoltage == IF PGOOD THEN wait_LTC3225 ELSE zzz

\* Variant: a charged capacitor bank goes straight to the modem, without
\* the top-up state.
StartLTC_Next_skip ==
  IF LowVoltage(vbat) THEN zzz
  ELSE IF PGOOD THEN start_9603
  ELSE zzz

\* Variant: a charger that never signalled ready still gets the top-up.
StartLTC_Next_anyway ==
  IF LowVoltage(vbat) THEN zzz ELSE wait_LTC3225

\* The if / else if / else after the loop of start_LTC3225.
StartLTC_Next ==
  IF LowVoltage(vbat) THEN zzz
  ELSE IF PGOOD THEN wait_LTC3225
  ELSE zzz

StartLTC_Outcome ==
  /\ loop_step = start_LTC3225 /\ pc = "done"
  /\ Goto(StartLTC_Next)
  /\ StopClock
  /\ UNCHANGED <<pins, vbat, records, fixType, PGOOD, err, iterationCounter,
                 timer, gnss_ok, vbat_step,
                 modem_calls, sensor_calls, fix_written, outBuffer, pgood_low_seen>>

\* ------------------------------------------------------------ wait_LTC3225
WaitLTC_Begin ==
  /\ loop_step = wait_LTC3225 /\ pc = "top"
  /\ StartClock
  /\ pgood_low_seen' = FALSE
  /\ pc' = "loop"
  /\ UNCHANGED <<loop_step, pins, vbat, records, fixType, PGOOD, err,
                 iterationCounter, timer, gnss_ok, vbat_step, cycle_path,
                 modem_calls, sensor_calls, fix_written, outBuffer>>

\* Variant: the operands of the top-up comparison are swapped.
WaitLTC_Cond_swapped == TOPUP_timeout < Elapsed

\* millis() - tnow < TOPUP_timeout * 1000UL
WaitLTC_Cond == Elapsed < TOPUP_timeout

\* The loop body samples the voltage only: the level of superCapPGOOD
\* during the iteration is not read, and PGOOD keeps its value.
WaitLTC_Poll ==
  /\ loop_step = wait_LTC3225 /\ pc = "loop"
  /\ WaitLTC_Cond
  /\ \E raw \in AdcReadings : Sample(raw)
  /\ \E level \in BOOLEAN : pgood_low_seen' = (pgood_low_seen \/ ~level)
  /\ IF BreakOnLow(vbat')
       THEN pc' = "done" /\ ms' = ms /\ waited' = waited
       ELSE pc' = "loop" /\ PollDelay
  /\ UNCHANGED <<loop_step, pins, records, fixType, PGOOD, err,
                 iterationCounter, timer, tnow, gnss_ok, cycle_path,
                 modem_calls, sensor_calls, fix_written, outBuffer>>

WaitLTC_LoopExit ==
  /\ loop_step = wait_LTC3225 /\ pc = "loop"
  /\ ~WaitLTC_Cond
  /\ pc' = "done"
  /\ UNCHANGED pgood_low_seen
  /\ UNCHANGED <<loop_step, pins, vbat, records, fixType, PGOOD, err,
                 iterationCounter, timer, ms, waited, tnow, gnss_ok, vbat_step,
                 cycle_path,
                 modem_calls, sensor_calls, fix_written, outBuffer>>

\* The if / else if / else after the loop of wait_LTC3225.
WaitLTC_Next ==
  IF LowVoltage(vbat) THEN zzz
  ELSE IF PGOOD THEN start_9603
  ELSE zzz

WaitLTC_Outcome ==
  /\ loop_step = wait_LTC3225 /\ pc = "done"
  /\ Goto(WaitLTC_Next)
  /\ StopClock
  /\ pgood_low_seen' = FALSE
  /\ UNCHANGED <<pins, vbat, records, fixType, PGOOD, err, iterationCounter,
                 timer, gnss_ok, vbat_step,
                 modem_calls, sensor_calls, fix_written, outBuffer>>

\* -------------------------------------------------------------- start_9603
Start9603_PowerOn ==
  /\ loop_step = start_9603 /\ pc = "top"
  /\ iridiumPwrEN' = "HIGH"
  /\ pc' = "begin"
  /\ UNCHANGED <<loop_step, gnssEN_mode, gnssEN, superCapChgEN, iridiumSleep,
                 busVoltageMonEN, vbat, records, fixType, PGOOD, err,
                 iterationCounter, timer, ms, waited, tnow, gnss_ok, vbat_step,
                 cycle_path,
                 modem_calls, sensor_calls, fix_written, outBuffer, pgood_low_seen>>

\* Variant: a failed modem.begin() counts as a transmission attempt too.
CounterAfterBegin_counted(e) ==
  IF e # "ISBD_SUCCESS" THEN iterationCounter + 1 ELSE iterationCounter

\* iterationCounter after modem.begin() has returned e.
CounterAfterBegin(e) == iterationCounter

\* err = modem.begin(): the driver raises the ON/OFF line it was given.
Start9603_Begin ==
  /\ loop_step = start_9603 /\ pc = "begin"
  /\ iridiumSleep' = "HIGH"
  /\ \E run \in CallbackRuns, res \in ModemOutcomes :
       /\ AfterRun(run)
       /\ err' = ModemResult(run, res)
  /\ modem_calls' = Append(modem_calls, Called("begin", err'))
  /\ iterationCounter' = CounterAfterBegin(err')
  /\ IF err' # "ISBD_SUCCESS"
       THEN Goto(zzz)
       ELSE pc' = "send" /\ UNCHANGED <<loop_step, cycle_path>>
  /\ UNCHANGED <<gnssEN_mode, gnssEN, iridiumPwrEN, superCapChgEN,
                 busVoltageMonEN, records, fixType, PGOOD, timer, ms, waited, tnow,
                 gnss_ok, outBuffer, pgood_low_seen, sensor_calls, fix_written>>

\* The first eight strings that sprintf puts into outBuffer: the date and
\* time, then the position, speed, course, pdop and satellites of fix f.
FixFields(f) ==
  << FmtInt(f.year) \o Fmt02(f.month) \o Fmt02(f.day) \o
       Fmt02(f.hour) \o Fmt02(f.minute) \o Fmt02(f.second),
     dtostrf(f.latitude, 8, 6),
     dtostrf(f.longitude, 8, 6),
     dtostrf(IntVal(f.altitude), 4, 2),
     dtostrf(f.speed, 4, 2),
     FmtInt(f.course),
     FmtInt(f.pdop),
     FmtInt(f.satellites) >>

\* The conversions, tabulated over the values the variables take.
FixText == [f \in FormatFixes |-> FixFields(f)]

\* dtostrf(pascals,1,0,pressure_str)
PressureText ==
  [p \in {0} \cup {r.pressure * 10 : r \in SensorReadings} |->
     dtostrf(F32Ratio(p, 1), 1, 0)]

\* dtostrf(tempC,3,1,temperature_str)
TemperatureText ==
  [t \in {0} \cup {r.temperature : r \in SensorReadings} |->
     dtostrf(F32Ratio(t, 10), 3, 1)]

\* dtostrf(vbat,4,2,vbat_str)
VoltageText ==
  [v \in {5000} \cup {get_vbat(raw) : raw \in AdcReadings} |->
     dtostrf(F32Ratio(v, 1000), 4, 2)]

\* The twelve strings that sprintf puts into outBuffer, in order.
MessageFields ==
  FixText[fix] \o << PressureText[pascals], TemperatureText[tempC],
                     VoltageText[vbat], FmtInt(iterationCounter) >>

\* The fields from the i-th on, with commas between them.
RECURSIVE JoinFrom(_, _)
JoinFrom(fields, i) ==
  IF i = Len(fields) THEN fields[i]
  ELSE fields[i] \o "," \o JoinFrom(fields, i + 1)

\* (The sequence is bound as a value f.)
Join(fields) == CHOOSE text \in {JoinFrom(f, 1) : f \in {fields}} : TRUE

\* sprintf(outBuffer, "%d%02d%02d%02d%02d%02d,%s,%s,%s,%s,%d,%d,%d,%s,%s,%s,%d", ...)
Message == Join(MessageFields)

\* err = modem.sendSBDText(outBuffer), which calls ISBDCallback periodically.
\* Variant: a failed send is attempted again.
AfterSend_retry(e) == IF e # "ISBD_SUCCESS" THEN "send" ELSE "cleanup"

\* Where start_9603 continues when sendSBDText() has returned e.
AfterSend(e) == "cleanup"

Start9603_Send ==
  /\ loop_step = start_9603 /\ pc = "send"
  /\ outBuffer' = Message
  /\ \E run \in CallbackRuns, res \in ModemOutcomes :
       /\ AfterRun(run)
       /\ err' = ModemResult(run, res)
  /\ modem_calls' = Append(modem_calls, Called("sendSBDText", err'))
  /\ since_send' = 0
  /\ pc' = AfterSend(err')
  /\ UNCHANGED <<loop_step, pins, records, fixType, PGOOD, iterationCounter,
                 seconds_count, interval_alarm, ticks, ms, waited, tnow,
                 gnss_ok, cycle_path, pgood_low_seen, sensor_calls, fix_written>>

\* Variant: a failed clearBuffers() skips the modem's sleep().
CleanupCalls_escalated(cleared, slept) ==
  IF cleared # "ISBD_SUCCESS"
    THEN <<Called("clearBuffers", cleared)>>
    ELSE <<Called("clearBuffers", cleared), Called("sleep", slept)>>

\* The driver calls after sendSBDText() has returned, in program order.
CleanupCalls(cleared, slept) ==
  <<Called("clearBuffers", cleared), Called("sleep", slept)>>

\* modem.clearBuffers(ISBD_CLEAR_MO); modem.sleep(), which lowers the ON/OFF
\* line when it succeeds; iterationCounter + 1; zzz.  outBuffer, a local of
\* the block, goes out of scope.
Start9603_Cleanup ==
  /\ loop_step = start_9603 /\ pc = "cleanup"
  /\ \E cleared \in ModemOutcomes, slept \in ModemOutcomes :
       /\ err' = slept
       /\ modem_calls' = modem_calls \o CleanupCalls(cleared, slept)
       /\ iridiumSleep' = IF slept = "ISBD_SUCCESS" THEN "LOW" ELSE iridiumSleep
  /\ iterationCounter' = iterationCounter + 1
  /\ outBuffer' = ""
  /\ Goto(zzz)
  /\ UNCHANGED <<gnssEN_mode, gnssEN, iridiumPwrEN, superCapChgEN,
                 busVoltageMonEN, vbat, records, fixType, PGOOD, timer, ms, waited,
                 tnow, gnss_ok, vbat_step, pgood_low_seen, sensor_calls, fix_written>>

\* --------------------------------------------------------------------- zzz
\* Variant: the charger is not disabled before the deep sleep.
PowerDownLevels_charger ==
  [iridiumSleep |-> "LOW", iridiumPwrEN |-> "LOW",
   superCapChgEN |-> superCapChgEN, busVoltageMonEN |-> "LOW"]

\* Variant: the 9603N ON/OFF line is not lowered before the deep sleep.
PowerDownLevels_onoff ==
  [iridiumSleep |-> iridiumSleep, iridiumPwrEN |-> "LOW",
   superCapChgEN |-> "LOW", busVoltageMonEN |-> "LOW"]

\* The levels zzz writes to the four output pins before the deep sleep.
PowerDownLevels ==
  [iridiumSleep |-> "LOW", iridiumPwrEN |-> "LOW",
   superCapChgEN |-> "LOW", busVoltageMonEN |-> "LOW"]

\* gnssOFF(); iridiumSleep, iridiumPwrEN, superCapChgEN, busVoltageMonEN LOW.
Zzz_PowerDown ==
  /\ loop_step = zzz /\ pc = "top"
  /\ SetGnss(gnssOFF)
  /\ iridiumSleep' = PowerDownLevels.iridiumSleep
  /\ iridiumPwrEN' = PowerDownLevels.iridiumPwrEN
  /\ superCapChgEN' = PowerDownLevels.superCapChgEN
  /\ busVoltageMonEN' = PowerDownLevels.busVoltageMonEN
  /\ pc' = "alarm_test"
  /\ UNCHANGED <<loop_step, vbat, records, fixType, PGOOD, err,
                 iterationCounter, timer, ms, waited, tnow, gnss_ok, vbat_step,
                 cycle_path,
                 modem_calls, sensor_calls, fix_written, outBuffer, pgood_low_seen>>

\* Variant: the latch is tested with an if, so any wake-up ends the wait.
AfterAlarmTest_once ==
  IF pc = "woken" \/ interval_alarm THEN "alarm_clear" ELSE "sleep_call"

\* Variant: the sleep call comes before the first test of the latch, and
\* a wake-up that finds the latch set does not count when the latch was
\* set before the processor slept.
AfterAlarmTest_sleepfirst ==
  IF interval_alarm /\ pc = "woken" THEN "alarm_clear" ELSE "sleep_call"

\* Where the test of while (!interval_alarm) leads.
AfterAlarmTest == IF interval_alarm THEN "alarm_clear" ELSE "sleep_call"

\* while (!interval_alarm): reached from the power-down sequence
\* ("alarm_test") and whenever the sleep call returns ("woken").
Zzz_Test ==
  /\ loop_step = zzz /\ pc \in {"alarm_test", "woken"}
  /\ pc' = AfterAlarmTest
  /\ UNCHANGED <<loop_step, pins, vbat, records, fixType, PGOOD, err,
                 iterationCounter, timer, ms, waited, tnow, gnss_ok, vbat_step,
                 cycle_path,
                 modem_calls, sensor_calls, fix_written, outBuffer, pgood_low_seen>>

\* am_hal_sysctrl_sleep(AM_HAL_SYSCTRL_SLEEP_DEEP): the processor stops.
Zzz_Sleep ==
  /\ loop_step = zzz /\ pc = "sleep_call"
  /\ pc' = "deep_sleep"
  /\ UNCHANGED <<loop_step, pins, vbat, records, fixType, PGOOD, err,
                 iterationCounter, timer, ms, waited, tnow, gnss_ok, vbat_step,
                 cycle_path,
                 modem_calls, sensor_calls, fix_written, outBuffer, pgood_low_seen>>

\* interval_alarm = false; loop_step = wake.
Zzz_Clear ==
  /\ loop_step = zzz /\ pc = "alarm_clear"
  /\ interval_alarm' = FALSE
  /\ Goto(wake)
  /\ UNCHANGED <<pins, vbat, records, fixType, PGOOD, err, iterationCounter,
                 seconds_count, since_send, ticks, ms, waited, tnow, gnss_ok,
                 vbat_step, modem_calls, sensor_calls, fix_written, outBuffer, pgood_low_seen>>

\* -------------------------------------------------------------------- wake
\* Variant: wake also restarts the count of seconds.
Wake_restart ==
  /\ loop_step = wake /\ pc = "top"
  /\ Goto(loop_init)
  /\ modem_calls' = <<>>
  /\ sensor_calls' = <<>>
  /\ fix_written' = FALSE
  /\ seconds_count' = 0
  /\ UNCHANGED <<pins, vbat, records, fixType, PGOOD, err, iterationCounter,
                 interval_alarm, since_send, ticks, ms, waited, tnow, gnss_ok,
                 vbat_step, outBuffer, pgood_low_seen>>

Wake ==
  /\ loop_step = wake /\ pc = "top"
  /\ Goto(loop_init)
  /\ modem_calls' = <<>>
  /\ sensor_calls' = <<>>
  /\ fix_written' = FALSE
  /\ UNCHANGED <<pins, vbat, records, fixType, PGOOD, err, iterationCounter,
                 timer, ms, waited, tnow, gnss_ok, vbat_step, outBuffer, pgood_low_seen>>

\* -------------------------------------------------------------- am_rtc_isr
\* Variant: the alarm comparison is > instead of >=.
IntervalReached_late(n) == n > INTERVAL

\* if (seconds_count >= INTERVAL)
IntervalReached(n) == n >= INTERVAL

\* The 1 Hz RTC alarm interrupt.  It also ends a deep sleep.
Tick ==
  /\ IF IntervalReached(seconds_count + 1)
       THEN interval_alarm' = TRUE /\ seconds_count' = 0
       ELSE seconds_count' = seconds_count + 1 /\ UNCHANGED interval_alarm
  /\ ticks' = (ticks + 1) % INTERVAL
  /\ since_send' = Min(since_send + 1, INTERVAL)
  /\ pc' = IF pc = "deep_sleep" THEN "woken" ELSE pc
  /\ UNCHANGED <<loop_step, pins, vbat, records, fixType, PGOOD, err,
                 iterationCounter, ms, waited, tnow, gnss_ok, vbat_step, cycle_path,
                 modem_calls, sensor_calls, fix_written, outBuffer, pgood_low_seen>>

\* Any other event that ends a deep sleep.
WakeEvent ==
  /\ pc = "deep_sleep"
  /\ pc' = "woken"
  /\ UNCHANGED <<loop_step, pins, vbat, records, fixType, PGOOD, err,
                 iterationCounter, timer, ms, waited, tnow, gnss_ok, vbat_step,
                 cycle_path,
                 modem_calls, sensor_calls, fix_written, outBuffer, pgood_low_seen>>

\* Power-on or reset: the initialisers and setup() run again.
Restart ==
  /\ loop_step' = loop_init
  /\ pc' = "top"
  /\ SetGnss(gnssOFF)
  /\ iridiumPwrEN' = "LOW"
  /\ superCapChgEN' = "LOW"
  /\ iridiumSleep' = "LOW"
  /\ busVoltageMonEN' = "LOW"
  /\ vbat' = 5000
  /\ fix' = DefaultFix
  /\ pascals' = 0
  /\ tempC' = 0
  /\ fixType' = 0
  /\ PGOOD' = FALSE
  /\ err' = "ISBD_SUCCESS"
  /\ iterationCounter' = 0
  /\ seconds_count' = 0
  /\ ticks' = 0
  /\ interval_alarm' = FALSE
  /\ ms' = 0
  /\ tnow' = 0
  /\ waited' = 0
  /\ gnss_ok' = FALSE
  /\ vbat_step' = -1
  /\ cycle_path' = <<loop_init>>
  /\ since_send' = INTERVAL
  /\ modem_calls' = <<>>
  /\ sensor_calls' = <<>>
  /\ fix_written' = FALSE
  /\ outBuffer' = ""
  /\ pgood_low_seen' = FALSE

\* One step of loop().
Step ==
  \/ LoopInit
  \/ StartGPS_PowerOn \/ StartGPS_Check
  \/ ReadGPS_Begin \/ ReadGPS_Poll \/ ReadGPS_LoopExit \/ ReadGPS_Outcome
  \/ ReadPressure
  \/ StartLTC_Enable \/ StartLTC_Poll \/ StartLTC_LoopExit \/ StartLTC_Outcome
  \/ WaitLTC_Begin \/ WaitLTC_Poll \/ WaitLTC_LoopExit \/ WaitLTC_Outcome
  \/ Start9603_PowerOn \/ Start9603_Begin \/ Start9603_Send
  \/ Start9603_Cleanup
  \/ Zzz_PowerDown \/ Zzz_Test \/ Zzz_Sleep \/ Zzz_Clear
  \/ Wake

Next == Step \/ Tick \/ WakeEvent \/ Restart

Spec == Init /\ [][Next]_vars

\* The device keeps running: it is not reset, loop() is called again and
\* again, every call into a driver returns, and the RTC keeps ticking.
RunNext == Step \/ Tick \/ WakeEvent

LiveSpec == Init /\ [][RunNext]_vars /\ WF_vars(Step) /\ WF_vars(Tick)

TypeOK ==
  /\ loop_step \in 0..8
  /\ pc \in {"top", "settle", "loop", "done", "begin", "send", "cleanup",
             "alarm_test", "sleep_call", "deep_sleep", "woken",
             "alarm_clear"}
  /\ seconds_count \in 0..(INTERVAL - 1)
  /\ ticks \in 0..(INTERVAL - 1)
  /\ fix_written \in BOOLEAN
  /\ \A i \in 1..Len(sensor_calls) :
       sensor_calls[i] \in [call : {"begin", "getTemperature", "getPressure"},
                            ok : BOOLEAN]
  /\ iterationCounter \in 0..MaxIterations
  /\ vbat \in {5000} \cup {get_vbat(r) : r \in AdcReadings}

\* ------------------------------------------------- the message assembly
\* The message assembly of start_9603 on its own: the states in which
\* modem.begin() has just succeeded, over a wider range of fix variables
\* and counts than a few cycles of Spec produce.
MaxCount == 7

FormatInit ==
  /\ loop_step = start_9603
  /\ pc = "send"
  /\ gnssEN_mode = "INPUT_PULLUP"
  /\ gnssEN = "HIGH"
  /\ iridiumPwrEN = "HIGH"
  /\ superCapChgEN = "HIGH"
  /\ iridiumSleep = "HIGH"
  /\ busVoltageMonEN = "LOW"
  /\ vbat \in {get_vbat(raw) : raw \in {r \in AdcReadings : ISBDCallback(r)}}
  /\ fix \in FormatFixes
  /\ \E r \in SensorReadings :
       \/ /\ pascals = r.pressure * 10 /\ tempC = r.temperature
          /\ sensor_calls = BeginAttempts(TRUE, TRUE) \o SensorReads
       \/ /\ pascals = 0 /\ tempC = 0
          /\ sensor_calls = BeginAttempts(FALSE, FALSE)
  /\ fix_written = TRUE
  /\ fixType = IF fix = DefaultFix THEN 0 ELSE 3
  /\ PGOOD = TRUE
  /\ err = "ISBD_SUCCESS"
  /\ iterationCounter \in 0..MaxCount
  /\ seconds_count = 0
  /\ ticks = 0
  /\ interval_alarm = FALSE
  /\ ms = 0
  /\ tnow = 0
  /\ waited = 0
  /\ gnss_ok = (fix # DefaultFix)
  /\ vbat_step = wait_LTC3225
  /\ cycle_path = <<loop_init, start_GPS, read_GPS, read_pressure,
                    start_LTC3225, wait_LTC3225, start_9603>>
  /\ since_send = INTERVAL
  /\ modem_calls = <<Called("begin", "ISBD_SUCCESS")>>
  /\ outBuffer = ""
  /\ pgood_low_seen = FALSE

FormatNext == Start9603_Send \/ Start9603_Cleanup

FormatSpec == FormatInit /\ [][FormatNext]_vars

\* ---------------------------------------------------------------- claims
\* A step of loop() that leaves state s (a restart is not such a step).
Leaves(s) == loop_step = s /\ loop_step' # s /\ ~Restart

\* The positions of zzz after its power-down sequence: the low-power wait.
InLowPowerWait == loop_step = zzz /\ pc # "top"

AllDomainsOff == ~GnssEnabled /\ ~ModemEnabled /\ ~ChargerEnabled

InPath(s) == \E i \in 1..Len(cycle_path) : cycle_path[i] = s

\* C1: in every reachable state the GNSS domain (gnssEN driven low) and the
\* modem domain (iridiumPwrEN high) are not both enabled.
C1_NeverBothEnabled == ~(GnssEnabled /\ ModemEnabled)

\* The modem is powered in a cycle whose GNSS had been powered and read.
C1_Witness ==
  /\ loop_step = start_9603 /\ pc = "send"
  /\ ModemEnabled /\ InPath(read_GPS)

\* C2 as stated: on every transition into zzz the GNSS, modem and charger
\* domains are already off.
C2_Original == [][Leaves(loop_step) /\ loop_step' = zzz => AllDomainsOff']_vars

\* C2 amended: on every transition into zzz the GNSS domain is already off
\* (the modem and charger domains may still be on), and in the low-power
\* wait of zzz, after its power-down sequence, all three domains are off.
C2_Amended ==
  /\ [][Leaves(loop_step) /\ loop_step' = zzz => ~GnssEnabled']_vars
  /\ [](InLowPowerWait => AllDomainsOff)

\* zzz was entered from start_9603, where modem and charger were on, and
\* the processor is in deep sleep.
C2_Witness ==
  /\ loop_step = zzz /\ pc = "deep_sleep"
  /\ InPath(start_9603)
  /\ AllDomainsOff

\* The three states with a bounded wait loop.
WaitStates == {read_GPS, start_LTC3225, wait_LTC3225}

\* A loop iteration with a low sample ends the loop before the poll delay.
LowSampleEndsLoop ==
  (loop_step \in WaitStates /\ pc = "loop" /\ LowVoltage(vbat'))
    => (pc' = "done" /\ ms' = ms /\ loop_step' = loop_step)

\* A loop that ended with a low voltage is followed by zzz.
LowVoltageToSleep ==
  (loop_step \in WaitStates /\ pc = "done" /\ LowVoltage(vbat) /\ pc' # pc
     /\ ~Restart)
    => loop_step' = zzz

\* C3: in each of the three wait loops, an iteration whose voltage sample is
\* below VBAT_LOW ends the loop in that iteration, before the poll delay
\* (the clock reading does not advance), and the state then goes to zzz,
\* whatever fixType and PGOOD are.
C3_LowVoltageEndsLoop == [][LowSampleEndsLoop /\ LowVoltageToSleep]_vars

\* read_GPS left its loop on a low sample taken in the iteration that also
\* saw a 3D fix.
C3_Witness ==
  /\ loop_step = read_GPS /\ pc = "done"
  /\ LowVoltage(vbat) /\ vbat_step = read_GPS /\ fixType = 3

\* The states the claim C4 names as drawing battery current.
DrawingStates ==
  {start_GPS, read_GPS, read_pressure, start_LTC3225, wait_LTC3225, start_9603}

\* Leaving state s with a sample taken in s and, if it is low, to zzz.
SampledAndGated(s) ==
  Leaves(s) => (vbat_step' = s /\ (LowVoltage(vbat') => loop_step' = zzz))

AllSampledAndGated == \A s \in DrawingStates : SampledAndGated(s)

\* C4 as stated: each of the six states samples the voltage during its own
\* execution and goes to zzz when the sample is low.
C4_Original == [][AllSampledAndGated]_vars

\* read_pressure takes no sample and always goes on to start_LTC3225.
PressureUngated ==
  Leaves(read_pressure)
    => (vbat' = vbat /\ vbat_step' = vbat_step /\ loop_step' = start_LTC3225)

\* start_9603 always goes to zzz, whatever ISBDCallback sampled.
TransmitToSleep == Leaves(start_9603) => loop_step' = zzz

FourSampledAndGated ==
  \A s \in {start_GPS, read_GPS, start_LTC3225, wait_LTC3225} :
    SampledAndGated(s)

\* C4 amended: start_GPS, read_GPS, start_LTC3225 and wait_LTC3225 sample
\* the voltage during their own execution and go to zzz when the sample is
\* low; read_pressure takes no sample and always goes to start_LTC3225;
\* start_9603 calls get_vbat() only through ISBDCallback, when the modem
\* driver calls it, and always goes to zzz.
C4_Amended ==
  [][FourSampledAndGated /\ PressureUngated /\ TransmitToSleep]_vars

\* wait_LTC3225 went to zzz on a low sample although PGOOD was high.
C4_Witness ==
  /\ loop_step = zzz /\ pc = "top"
  /\ vbat_step = wait_LTC3225 /\ LowVoltage(vbat) /\ PGOOD

HandshakeFailureStep ==
  (Leaves(start_GPS) /\ ~LowVoltage(vbat') /\ ~gnss_ok')
    => (fix' = DefaultFix /\ ~GnssEnabled' /\ loop_step' = read_pressure)

\* C5: when the voltage after GNSS power-up is not low and myGPS.begin()
\* fails, start_GPS ends with every fix variable at its default, the GNSS
\* domain off and read_pressure as the next state.
C5_HandshakeFailure == [][HandshakeFailureStep]_vars

\* read_pressure is reached straight from start_GPS after a failed
\* handshake, in a cycle after one that transmitted.
C5_Witness ==
  /\ loop_step = read_pressure /\ pc = "top"
  /\ cycle_path = <<loop_init, start_GPS, read_pressure>>
  /\ ~gnss_ok /\ fix = DefaultFix /\ iterationCounter > 0

\* The last step of start_9603 after a successful modem.begin().
TransmitCompleted == Leaves(start_9603) /\ pc = "cleanup"

\* As C6 states it: every step that ends start_9603 adds 1, and no other
\* step of loop() or of the tick handler changes the counter.
EveryTransmitCounts ==
  \/ Restart /\ iterationCounter' = 0
  \/ Leaves(start_9603) /\ iterationCounter' = iterationCounter + 1
  \/ ~Restart /\ ~Leaves(start_9603) /\ iterationCounter' = iterationCounter

\* C6 as stated: iterationCounter increases by exactly 1 on every completed
\* execution of start_9603, also when modem.begin() failed.
C6_Original == [][EveryTransmitCounts]_vars

CountsSendAttempts ==
  \/ Restart /\ iterationCounter' = 0
  \/ TransmitCompleted /\ iterationCounter' = iterationCounter + 1
  \/ ~Restart /\ ~TransmitCompleted /\ iterationCounter' = iterationCounter

\* C6 amended: iterationCounter increases by exactly 1 on every execution
\* of start_9603 in which modem.begin() succeeded, whether the send
\* succeeded or failed; it is unchanged when modem.begin() fails and in
\* every other state, and is set to 0 only by a restart.
C6_Amended == [][CountsSendAttempts]_vars

\* start_9603 ended with a failed send and the counter was incremented.
C6_Witness ==
  /\ loop_step = zzz /\ pc = "top" /\ iterationCounter = 1
  /\ Len(modem_calls) = 4
  /\ modem_calls[2] = [call |-> "sendSBDText", ok |-> FALSE]

\* Without a 3D fix and without a low sample the loop ends only on timeout.
ExitOnlyOnTimeout ==
  (loop_step = read_GPS /\ pc = "loop" /\ pc' = "done"
     /\ fixType' # 3 /\ ~LowVoltage(vbat'))
    => waited >= GNSS_timeout

\* A step of loop() at the loop condition once the timeout has elapsed is
\* the loop's exit: no further iteration runs.
TimeoutExitsNow ==
  (loop_step = read_GPS /\ pc = "loop" /\ waited >= GNSS_timeout
     /\ (pc' # pc \/ ms' # ms) /\ ~Restart)
    => (pc' = "done" /\ ms' = ms /\ vbat' = vbat /\ fixType' = fixType)

\* After a timeout the fix variables hold the defaults and read_pressure is
\* next.
TimeoutOutcome ==
  (loop_step = read_GPS /\ pc = "done" /\ fixType # 3 /\ ~LowVoltage(vbat)
     /\ pc' # pc /\ ~Restart)
    => (loop_step' = read_pressure /\ fix' = DefaultFix)

\* The elapsed time seen at the loop condition is less than one iteration
\* past the timeout.
AtMostOneIterationLate ==
  (loop_step = read_GPS /\ pc = "loop") => waited < GNSS_timeout + MaxPollDur

\* C7: with no 3D fix and no low voltage the read_GPS loop does not exit
\* while the elapsed time is below GNSS_timeout, exits at the first loop
\* condition check at or after the timeout, at most one iteration late, and
\* then sets the fix variables to defaults and goes to read_pressure.
C7_TimeoutBoundary ==
  /\ [][ExitOnlyOnTimeout /\ TimeoutExitsNow /\ TimeoutOutcome]_vars
  /\ []AtMostOneIterationLate

\* The loop timed out, one iteration late, while the fix variables still
\* held an earlier cycle's fix.
C7_Witness ==
  /\ loop_step = read_GPS /\ pc = "done"
  /\ fixType # 3 /\ ~LowVoltage(vbat)
  /\ waited = GNSS_timeout + MaxPollDur - 1
  /\ fix # DefaultFix

\* The send of start_9603.
SendStep == loop_step = start_9603 /\ pc = "send" /\ pc' = "cleanup"

IntervalBetweenSends == SendStep => since_send >= INTERVAL

\* C8: between two successive sends at least INTERVAL ticks elapse.
C8_MinimumInterval == [][IntervalBetweenSends]_vars

\* The pins as setup() leaves them, at the top of loop_init.
LogicalResetState ==
  /\ loop_step = loop_init /\ pc = "top"
  /\ AllDomainsOff
  /\ iridiumSleep = "LOW" /\ busVoltageMonEN = "LOW"

QuietInLowPowerWait ==
  InLowPowerWait
    => (AllDomainsOff /\ iridiumSleep = "LOW" /\ busVoltageMonEN = "LOW")

WakeLeavesResetAndLatchClear ==
  Leaves(wake) => (LogicalResetState' /\ ~interval_alarm')

\* C9 as stated: after zzz followed by wake the state is loop_init with all
\* domains off, the ON/OFF and measurement-enable lines low and the
\* interval latch clear; and no domain is enabled in the low-power wait.
C9_Original == [][WakeLeavesResetAndLatchClear]_vars /\ []QuietInLowPowerWait

WakeLeavesReset == Leaves(wake) => LogicalResetState'

SleepClearsLatch == Leaves(zzz) => (~interval_alarm' /\ loop_step' = wake)

\* C9 amended: after zzz followed by wake the state is loop_init with all
\* domains off and the ON/OFF and measurement-enable lines low; zzz leaves
\* with the interval latch cleared (the tick handler may set it again
\* before loop_init runs); and no domain is enabled in the low-power wait.
C9_Amended ==
  [][WakeLeavesReset /\ SleepClearsLatch]_vars /\ []QuietInLowPowerWait

\* Back at loop_init after a cycle that transmitted and slept.
C9_Witness ==
  /\ LogicalResetState
  /\ iterationCounter = 1 /\ cycle_path = <<loop_init>> /\ modem_calls = <<>>
  /\ vbat_step = start_9603

\* The transition table of the sequencer.
TransitionTable ==
  { <<loop_init, start_GPS>>, <<loop_init, zzz>>,
    <<start_GPS, read_GPS>>, <<start_GPS, read_pressure>>, <<start_GPS, zzz>>,
    <<read_GPS, read_pressure>>, <<read_GPS, zzz>>,
    <<read_pressure, start_LTC3225>>,
    <<start_LTC3225, wait_LTC3225>>, <<start_LTC3225, zzz>>,
    <<wait_LTC3225, start_9603>>, <<wait_LTC3225, zzz>>,
    <<start_9603, zzz>>,
    <<zzz, wake>>,
    <<wake, loop_init>> }

FollowsTable ==
  \/ Restart
  \/ loop_step' = loop_step
  \/ <<loop_step, loop_step'>> \in TransitionTable

\* No state is entered twice in a cycle, and start_9603 is entered only
\* after read_pressure, start_LTC3225 and wait_LTC3225, in that order.
PathInOrder ==
  /\ \A i, j \in 1..Len(cycle_path) : i < j => cycle_path[i] # cycle_path[j]
  /\ \A i \in 1..Len(cycle_path) :
       cycle_path[i] = start_9603
         => /\ i > 3
            /\ cycle_path[i - 3] = read_pressure
            /\ cycle_path[i - 2] = start_LTC3225
            /\ cycle_path[i - 1] = wait_LTC3225

\* C10: every step of the sequencer follows the transition table; hence in
\* one cycle no state executes twice and start_9603 comes only after
\* read_pressure, start_LTC3225 and wait_LTC3225 in that order.
C10_TransitionTable == [][FollowsTable]_vars /\ []PathInOrder

\* A cycle that went through every state up to zzz.
C10_Witness ==
  /\ loop_step = zzz /\ pc = "top"
  /\ cycle_path = <<loop_init, start_GPS, read_GPS, read_pressure,
                    start_LTC3225, wait_LTC3225, start_9603, zzz>>

\* zzz is left only with the latch set, which the step clears, and to wake.
LeavesSleepOnLatch ==
  Leaves(zzz) => (interval_alarm /\ ~interval_alarm' /\ loop_step' = wake)

\* The processor that woke up goes on according to the latch: back to the
\* sleep call when it is clear, to the clearing of the latch when set.
WokenTestsLatch ==
  (loop_step = zzz /\ pc = "woken" /\ pc' # pc /\ ~Restart)
    => (pc' = IF interval_alarm THEN "alarm_clear" ELSE "sleep_call")

BackToSleep ==
  (loop_step = zzz /\ pc = "sleep_call" /\ pc' # pc /\ ~Restart)
    => (pc' = "deep_sleep" /\ loop_step' = zzz)

\* C11: zzz does not proceed to wake until the interval latch has been
\* observed set: a wake-up of the processor while the latch is clear (a
\* tick that does not complete the interval, or another wake event) leads
\* back to the deep sleep; once the latch is observed set, zzz clears it
\* and the next state is wake.
C11_SleepUntilLatch ==
  [][LeavesSleepOnLatch /\ WokenTestsLatch /\ BackToSleep]_vars

\* The processor was woken by an event other than a tick (the counter and
\* the latch are as the last completed interval left them).
C11_Witness ==
  /\ loop_step = zzz /\ pc = "woken"
  /\ ~interval_alarm /\ seconds_count = 0

\* The step that runs the power-down sequence of zzz.
PowerDownStep == loop_step = zzz /\ pc = "top" /\ pc' # pc /\ ~Restart

\* A disabled GNSS domain keeps its pin state in every step but gnssON().
GnssStaysDisabled ==
  (~GnssEnabled /\ ~(loop_step = start_GPS /\ pc = "top" /\ pc' # pc))
    => (gnssEN_mode' = gnssEN_mode /\ gnssEN' = gnssEN)

\* The power-down sequence changes no pin of a domain that is already off,
\* and no pin at all when everything is off.
PowerDownKeepsDisabled ==
  PowerDownStep
    => /\ ~GnssEnabled => (gnssEN_mode' = gnssEN_mode /\ gnssEN' = gnssEN)
       /\ ~ModemEnabled => iridiumPwrEN' = iridiumPwrEN
       /\ ~ChargerEnabled => superCapChgEN' = superCapChgEN
       /\ (AllDomainsOff /\ iridiumSleep = "LOW" /\ busVoltageMonEN = "LOW")
            => pins' = pins

\* C12: disabling a power domain is idempotent: gnssOFF() and the
\* power-down sequence of zzz, applied to a domain that is already
\* disabled, leave the pin state as it was; in particular the power-down
\* sequence changes nothing when no domain was enabled in the cycle.
C12_DisableIdempotent == [][GnssStaysDisabled /\ PowerDownKeepsDisabled]_vars

\* zzz has run its power-down sequence after start_GPS had already called
\* gnssOFF(), in a cycle that never enabled the charger or the modem.
C12_Witness ==
  /\ loop_step = zzz /\ pc = "alarm_test"
  /\ cycle_path = <<loop_init, start_GPS, zzz>>
  /\ AllDomainsOff

\* The message has twelve fields, the first of them 14 characters long.
TwelveFields ==
  SendStep
    => /\ outBuffer' = Join(MessageFields)
       /\ Len(MessageFields) = 12
       /\ Len(MessageFields[1]) = 14

\* The fix variables of the example: latitude 51.123456 as a float holds it.
ExampleFix == FixAt(511234560)

ExampleMessage ==
  (/\ SendStep
   /\ fix = ExampleFix
   /\ pascals = 101300 /\ tempC = 155
   /\ vbat = get_vbat(10146)
   /\ iterationCounter = 7)
    => outBuffer' =
         "20201215093000,51.123456,-1.234567,123.00,1.50,90,2,8,101300,15.5,4.05,7"

\* C13: the message built in start_9603 is one line of twelve
\* comma-separated fields, date and time first as 14 digits, and for the
\* fix 2020-12-15 09:30:00, latitude 51.123456, longitude -1.234567,
\* altitude 123, speed 1.50, course 90, pdop 2, 8 satellites, pressure
\* 101300, temperature 15.5, 4.05 V and count 7 it is
\* 20201215093000,51.123456,-1.234567,123.00,1.50,90,2,8,101300,15.5,4.05,7.
C13_MessageFormat == [][TwelveFields /\ ExampleMessage]_vars

\* The layout alone, without the example.
LayoutOnly == [][TwelveFields]_vars

\* No latitude from 51.1234550 to 51.1234569 is sent as 51.123456.
LatitudeFieldNever56 ==
  [][(SendStep /\ fix \in {FixAt(lat) : lat \in NearbyLatitudes})
       => MessageFields[2] # "51.123456"]_vars

\* A cycle is under way: a state from start_GPS to start_9603, or loop_init
\* about to run.
CycleUnderWay ==
  \/ loop_step \in {start_GPS, read_GPS, read_pressure, start_LTC3225,
                    wait_LTC3225, start_9603}
  \/ loop_step = loop_init /\ iterationCounter < MaxIterations

AsleepAllOff == InLowPowerWait /\ AllDomainsOff

\* C14: no failure is fatal.  While the device keeps running, every cycle
\* reaches the low-power wait of zzz with all domains off, whatever the
\* voltage readings, handshake results, timeouts and modem results, and
\* from there the sequencer comes back to loop_init.
C14_AlwaysBackToSleep ==
  /\ CycleUnderWay ~> AsleepAllOff
  /\ InLowPowerWait ~> (loop_step = loop_init /\ pc = "top")

\* A cycle whose modem.begin() failed has reached the deep sleep.
C14_Witness ==
  /\ loop_step = zzz /\ pc = "deep_sleep"
  /\ AllDomainsOff
  /\ modem_calls = <<Called("begin", "ISBD_PROTOCOL_ERROR")>>

\* The top-up wait ends after superCapPGOOD was low in one of its
\* iterations, with the voltage not low.
ReadyLostStep ==
  Leaves(wait_LTC3225) /\ pgood_low_seen /\ ~LowVoltage(vbat)

ReadyLostToSleep == ReadyLostStep => loop_step' = zzz

TransmitOnlyIfReadyHeld ==
  (Leaves(wait_LTC3225) /\ loop_step' = start_9603)
    => (~pgood_low_seen /\ ~LowVoltage(vbat))

\* C15: when the charge-ready signal is lost (superCapPGOOD low) in any
\* iteration of the top-up wait while the voltage is not low, the next
\* state is zzz; start_9603 follows only when the signal was held in every
\* iteration and the voltage stayed adequate.
C15_ReadyLostEndsCycle == [][ReadyLostToSleep /\ TransmitOnlyIfReadyHeld]_vars

\* read_GPS is left with the GNSS domain off, whatever the outcome.
ReadGnssExitsOff == Leaves(read_GPS) => ~GnssEnabled'

\* start_GPS is left with the GNSS domain off unless read_GPS follows.
StartGnssExitsOff ==
  (Leaves(start_GPS) /\ loop_step' # read_GPS) => ~GnssEnabled'

\* At the entry of a state other than read_GPS the GNSS domain is off.
GnssOffAtEntry == (pc = "top" /\ loop_step # read_GPS) => ~GnssEnabled

\* C16: the GNSS domain is off at the exit of read_GPS in all three
\* outcomes (low voltage, 3D fix, timeout) and at the exit of start_GPS
\* unless the next state is read_GPS; hence it is off at the entry of
\* every state other than read_GPS.
C16_GnssOffOutsideRead ==
  [][ReadGnssExitsOff /\ StartGnssExitsOff]_vars /\ []GnssOffAtEntry

\* read_pressure is entered after a read_GPS that timed out without a fix.
C16_Witness ==
  /\ loop_step = read_pressure /\ pc = "top"
  /\ cycle_path = <<loop_init, start_GPS, read_GPS, read_pressure>>
  /\ fixType # 3 /\ ~LowVoltage(vbat)
  /\ ~GnssEnabled

\* The fix variables are all defaults or all from one captured solution.
FixIsWhole == fix \in {DefaultFix} \cup CapturedFixes

\* Fix variables are captured only by the step that ends a read_GPS which
\* saw fix type 3 with the voltage not low.
CaptureOnlyOn3D ==
  (fix' # fix /\ fix' # DefaultFix)
    => (Leaves(read_GPS) /\ fixType = 3 /\ ~LowVoltage(vbat))

TimeoutLeavesDefaults ==
  (Leaves(read_GPS) /\ ~LowVoltage(vbat) /\ fixType # 3) => fix' = DefaultFix

LowVoltageWritesNoField ==
  (Leaves(read_GPS) /\ LowVoltage(vbat)) => fix' = fix

\* C17: the fix variables are never a mixture: they are all defaults, or
\* all captured together by one read_GPS that saw fix type 3 with the
\* voltage not low; a read_GPS that times out leaves all of them at the
\* defaults, and one that ends on low voltage writes none.
C17_FixNeverMixed ==
  /\ []FixIsWhole
  /\ [][CaptureOnlyOn3D /\ TimeoutLeavesDefaults /\ LowVoltageWritesNoField]_vars

\* A read_GPS of the second cycle ended on low voltage and kept the fix
\* that the first cycle captured and sent.
C17_Witness ==
  /\ loop_step = zzz /\ pc = "top"
  /\ cycle_path = <<loop_init, start_GPS, read_GPS, zzz>>
  /\ iterationCounter = 1
  /\ fix \in CapturedFixes

\* The three outcomes of read_GPS, in the order the code tests them.
LowSampleWins ==
  (Leaves(read_GPS) /\ LowVoltage(vbat)) => (loop_step' = zzz /\ fix' = fix)

FixThenCapture ==
  (Leaves(read_GPS) /\ ~LowVoltage(vbat) /\ fixType = 3)
    => (loop_step' = read_pressure /\ fix' \in CapturedFixes)

TimeoutThenDefaults ==
  (Leaves(read_GPS) /\ ~LowVoltage(vbat) /\ fixType # 3)
    => (loop_step' = read_pressure /\ fix' = DefaultFix)

\* The voltage tested after the loop was sampled inside this read_GPS.
OutcomeUsesOwnSample ==
  (loop_step = read_GPS /\ pc = "done") => vbat_step = read_GPS

\* C18: read_GPS goes to zzz when the last voltage sample of its loop is
\* low, even if fix type 3 was seen in the same iteration; otherwise with
\* fix type 3 it captures the fix and goes to read_pressure; otherwise it
\* sets the defaults and goes to read_pressure. The loop body runs at
\* least once, so the tested voltage is one sampled inside this read_GPS.
C18_ReadGnssPriority ==
  /\ []OutcomeUsesOwnSample
  /\ [][LowSampleWins /\ FixThenCapture /\ TimeoutThenDefaults]_vars

\* read_GPS saw fix type 3 and a low sample in the same iteration and
\* went to zzz.
C18_Witness ==
  /\ loop_step = zzz /\ pc = "top"
  /\ cycle_path = <<loop_init, start_GPS, read_GPS, zzz>>
  /\ fixType = 3 /\ LowVoltage(vbat) /\ vbat_step = read_GPS
  /\ fix = DefaultFix

\* This cycle went from start_LTC3225 through wait_LTC3225 to start_9603.
ChargedPath ==
  \E i \in 1..(Len(cycle_path) - 2) :
    /\ cycle_path[i] = start_LTC3225
    /\ cycle_path[i + 1] = wait_LTC3225
    /\ cycle_path[i + 2] = start_9603

\* The modem is powered, or was called, only in such a cycle.
ModemOnlyAfterCharge ==
  (ModemEnabled \/ modem_calls # <<>>) => ChargedPath

\* A low sample in the top-up loop ends the loop at once.
TopUpStopsOnLow ==
  (loop_step = wait_LTC3225 /\ pc = "loop" /\ vbat_step = wait_LTC3225)
    => ~LowVoltage(vbat)

\* PGOOD becomes true only by a read inside the loop of start_LTC3225,
\* before its timeout.
ReadyOnlyBeforeTimeout ==
  (~PGOOD /\ PGOOD')
    => (loop_step = start_LTC3225 /\ pc = "loop" /\ Elapsed < CHG_timeout)

ChargeThenTopUp ==
  (Leaves(start_LTC3225) /\ loop_step' = wait_LTC3225)
    => (PGOOD /\ ~LowVoltage(vbat))

TopUpThenModem ==
  (Leaves(wait_LTC3225) /\ loop_step' = start_9603)
    => /\ ~LowVoltage(vbat) /\ vbat_step = wait_LTC3225
       /\ waited >= TOPUP_timeout

NotReadyToSleep ==
  (Leaves(start_LTC3225) /\ ~PGOOD)
    => (loop_step' = zzz /\ ~ModemEnabled' /\ modem_calls' = <<>>)

\* C19: the modem is powered only in a cycle in which start_LTC3225 read
\* PGOOD high before CHG_timeout and wait_LTC3225 ran for the whole of
\* TOPUP_timeout without a low voltage sample; when PGOOD never goes high
\* within CHG_timeout the next state is zzz, and the modem is neither
\* powered nor called in that cycle.
C19_ModemOnlyAfterCharge ==
  /\ [](ModemOnlyAfterCharge /\ TopUpStopsOnLow)
  /\ [][ReadyOnlyBeforeTimeout /\ ChargeThenTopUp /\ TopUpThenModem
          /\ NotReadyToSleep]_vars

\* The charger timed out without PGOOD and the cycle ended asleep with the
\* modem never powered or called.
C19_Witness ==
  /\ loop_step = zzz /\ pc = "deep_sleep"
  /\ cycle_path = <<loop_init, start_GPS, read_GPS, read_pressure,
                    start_LTC3225, zzz>>
  /\ ~PGOOD /\ ~LowVoltage(vbat) /\ vbat_step = start_LTC3225
  /\ ~ModemEnabled /\ modem_calls = <<>>

\* The counter is the number of ticks since boot, modulo INTERVAL.
CountsTicks == seconds_count = ticks /\ seconds_count \in 0..(INTERVAL - 1)

\* A tick sets the latch when it is an INTERVAL-th tick since boot, and
\* leaves the latch alone when it is not.
LatchOnIntervalTick ==
  Tick => /\ (ticks' = 0) => interval_alarm'
          /\ (ticks' # 0) => (interval_alarm' = interval_alarm)

\* Only the tick handler, and a reset, write the counter.
OnlyTickCounts ==
  (seconds_count' # seconds_count) => (Tick \/ Restart)

\* Only the tick handler sets the latch.
OnlyTickSetsLatch == (~interval_alarm /\ interval_alarm') => Tick

\* C20: each tick increments seconds_count and, when it reaches INTERVAL,
\* sets interval_alarm and resets seconds_count to zero; so
\* 0 <= seconds_count < INTERVAL after every tick, and interval_alarm is
\* set exactly on every INTERVAL-th tick since boot, whatever loop_step is:
\* entering zzz does not restart the counter.
C20_TickHandler ==
  /\ []CountsTicks
  /\ [][LatchOnIntervalTick /\ OnlyTickCounts /\ OnlyTickSetsLatch]_vars

\* The deep sleep was entered with the counter part-way through an interval.
C20_Witness ==
  /\ loop_step = zzz /\ pc = "deep_sleep"
  /\ ~interval_alarm
  /\ seconds_count = INTERVAL - 1 /\ ticks = INTERVAL - 1

\* The tick handler leaves the sequencer's variables alone.
TickTouchesOnlyTimer ==
  Tick => UNCHANGED <<loop_step, pins, vbat, records, fixType, PGOOD, err,
                      iterationCounter, outBuffer>>

\* The latch goes up only in the tick handler.
LatchSetByTick == (~interval_alarm /\ interval_alarm') => Tick

\* The latch goes down only in the statement after the sleep loop of zzz.
LatchClearedBySleep ==
  (interval_alarm /\ ~interval_alarm')
    => (Restart \/ (loop_step = zzz /\ pc = "alarm_clear"))

\* The steps of every state but zzz leave the latch and the counter alone.
OtherStatesLeaveTimer ==
  (loop_step # zzz /\ ~Tick /\ ~Restart)
    => UNCHANGED <<seconds_count, interval_alarm>>

\* zzz itself never writes the counter.
SleepLeavesCounter ==
  (loop_step = zzz /\ ~Tick /\ ~Restart) => UNCHANGED seconds_count

\* C21: the tick handler changes only seconds_count and interval_alarm,
\* never loop_step, a power pin, a record or iterationCounter; after
\* setup() the latch is set only by the tick handler and cleared only by
\* zzz, and no other state writes the latch or the counter.
C21_TimerSeparated ==
  [][TickTouchesOnlyTimer /\ LatchSetByTick /\ LatchClearedBySleep
       /\ OtherStatesLeaveTimer /\ SleepLeavesCounter]_vars

\* The tick handler set the latch while the modem was sending, and the
\* sequencer went on undisturbed.
C21_Witness ==
  /\ loop_step = start_9603 /\ pc = "cleanup"
  /\ interval_alarm /\ seconds_count = INTERVAL - 1
  /\ ModemEnabled

\* The names of the driver calls of this cycle, in order.
CallNames == [i \in 1..Len(modem_calls) |-> modem_calls[i].call]

SessionStarted == modem_calls # <<>> /\ modem_calls[1].ok

\* A cycle whose modem.begin() succeeded has, when start_9603 is left,
\* called sendSBDText, clearBuffers and sleep, in that order.
CleanupAlwaysRuns ==
  (loop_step = zzz /\ SessionStarted)
    => CallNames = <<"begin", "sendSBDText", "clearBuffers", "sleep">>

\* start_9603 after the send has returned, whatever the send returned.
AfterSendStep == loop_step = start_9603 /\ pc = "cleanup" /\ ~Tick /\ ~Restart

CleanupThenSleep ==
  AfterSendStep
    => /\ Len(modem_calls') = Len(modem_calls) + 2
       /\ modem_calls'[Len(modem_calls) + 1].call = "clearBuffers"
       /\ modem_calls'[Len(modem_calls) + 2].call = "sleep"
       /\ iterationCounter' = iterationCounter + 1
       /\ loop_step' = zzz

\* C22: once modem.begin() has succeeded, start_9603 always calls
\* clearBuffers and then sleep after the send has returned, whether the
\* send succeeded or failed; a failure of clearBuffers does not prevent the
\* sleep call, and a failure of either leaves the outcome as it is:
\* iterationCounter is incremented and the next state is zzz.
C22_CleanupBestEffort ==
  /\ []CleanupAlwaysRuns
  /\ [][CleanupThenSleep]_vars

\* The send, clearBuffers and sleep all failed; the counter was incremented
\* and the cycle went to zzz.
C22_Witness ==
  /\ loop_step = zzz /\ pc = "top"
  /\ modem_calls = <<Called("begin", "ISBD_SUCCESS"),
                     Called("sendSBDText", "ISBD_PROTOCOL_ERROR"),
                     Called("clearBuffers", "ISBD_PROTOCOL_ERROR"),
                     Called("sleep", "ISBD_PROTOCOL_ERROR")>>
  /\ iterationCounter = 1
  /\ iridiumSleep = "HIGH"

\* How many times a driver call was made in this cycle.
TimesCalled(name) ==
  Cardinality({i \in 1..Len(modem_calls) : modem_calls[i].call = name})

\* C23: a transmit failure is never retried within a cycle: between two
\* executions of zzz modem.begin() is called at most once and sendSBDText()
\* at most once, and sendSBDText() only after the begin() of that cycle
\* succeeded.
C23_NoRetryInCycle ==
  /\ TimesCalled("begin") <= 1
  /\ TimesCalled("sendSBDText") <= 1
  /\ TimesCalled("sendSBDText") = 1
       => (modem_calls[1] = Called("begin", "ISBD_SUCCESS"))

\* A send failed and the cycle reached the deep sleep with that one send.
C23_Witness ==
  /\ loop_step = zzz /\ pc = "deep_sleep"
  /\ TimesCalled("begin") = 1 /\ TimesCalled("sendSBDText") = 1
  /\ modem_calls[2] = Called("sendSBDText", "ISBD_CANCELLED")

\* The driver calls read_pressure can make.
SensorFirstTry == <<Sensed("begin", TRUE)>> \o SensorReads
SensorRetry == <<Sensed("begin", FALSE), Sensed("begin", TRUE)>> \o SensorReads
SensorAbsent == <<Sensed("begin", FALSE), Sensed("begin", FALSE)>>

SensorRead ==
  \E r \in SensorReadings : tempC' = r.temperature /\ pascals' = r.pressure * 10

\* read_pressure begins the sensor once, or twice when the first begin
\* failed; it reads the temperature and then the pressure unless both
\* failed, and then it stores zeros.
PressureOutcome ==
  Leaves(read_pressure)
    => /\ sensor_calls' \in {SensorFirstTry, SensorRetry, SensorAbsent}
       /\ (sensor_calls' = SensorAbsent) => (pascals' = 0 /\ tempC' = 0)
       /\ (sensor_calls' # SensorAbsent) => SensorRead

PressureThenCharge == Leaves(read_pressure) => loop_step' = start_LTC3225

\* C24: read_pressure makes at most two sensor begin attempts, the second
\* only when the first failed; when both fail pascals and tempC are set to
\* zero, and when the first or the retry succeeds the temperature and then
\* the pressure are read; in every case the next state is start_LTC3225.
C24_PressureRetryOnce == [][PressureOutcome /\ PressureThenCharge]_vars

\* Both begin attempts failed and the cycle went on to the charger with
\* zeros for the pressure and the temperature.
C24_Witness ==
  /\ loop_step = start_LTC3225 /\ pc = "top"
  /\ sensor_calls = SensorAbsent
  /\ pascals = 0 /\ tempC = 0

\* The states whose code tests vbat < VBAT_LOW.
DecidingStates == {loop_init, start_GPS, read_GPS, start_LTC3225, wait_LTC3225}

\* Every low-voltage decision is made on a sample of the deciding state.
DecisionsUseOwnSample == \A s \in DecidingStates : SampledAndGated(s)

\* start_9603 formats vbat and hands the message to sendSBDText().
FormatStep == loop_step = start_9603 /\ pc = "send" /\ outBuffer' # outBuffer

MessageUsesOwnSample == FormatStep => vbat_step = start_9603

\* C25 as stated: the voltage is never carried across states: every
\* low-voltage decision, and the vbat field of the message, uses a sample
\* taken during the same state's execution.
C25_Original == [][DecisionsUseOwnSample /\ MessageUsesOwnSample]_vars

\* The vbat field is the latest sample: one of an ISBDCallback() run by
\* modem.begin(), or else the last one of wait_LTC3225.
MessageUsesLatestSample ==
  FormatStep => vbat_step \in {wait_LTC3225, start_9603}

\* C25 amended: each low-voltage decision of loop_init, start_GPS,
\* read_GPS, start_LTC3225 and wait_LTC3225 uses a sample taken during that
\* state's execution; the vbat field of the message is the latest sample,
\* which is one taken in start_9603 only when modem.begin() ran
\* ISBDCallback(), and is otherwise the last sample of wait_LTC3225.
C25_Amended == [][DecisionsUseOwnSample /\ MessageUsesLatestSample]_vars

\* A message was formatted and sent with the voltage that wait_LTC3225
\* sampled last.
C25_Witness ==
  /\ loop_step = start_9603 /\ pc = "cleanup"
  /\ outBuffer # ""
  /\ vbat_step = wait_LTC3225

\* The pressure and the temperature were assigned in this cycle.
EnvWritten == sensor_calls # <<>>

\* C26: whenever start_9603 formats a message, the fix variables were
\* assigned (captured or set to defaults) and pascals and tempC were
\* assigned (read or set to zero) after the most recent loop_init, also
\* when earlier cycles went to zzz before read_GPS or read_pressure.
C26_MessageFromThisCycle ==
  (loop_step = start_9603) => (fix_written /\ EnvWritten)

\* The second message: the first cycle sent a captured fix, this cycle
\* found no receiver and no sensor and its message carries the defaults.
C26_Witness ==
  /\ loop_step = start_9603 /\ pc = "cleanup"
  /\ iterationCounter = 1
  /\ outBuffer # ""
  /\ fix = DefaultFix /\ ~gnss_ok /\ fix_written
  /\ sensor_calls = SensorAbsent /\ pascals = 0

\* A latch that is set stays set until zzz hands over to wake.
LatchKeptUntilWake ==
  (loop_step = zzz /\ interval_alarm /\ ~Restart)
    => (interval_alarm' \/ loop_step' = wake)

\* A test of the latch that finds it set ends the wait, whether the latch
\* was set before zzz, before the sleep call or during the sleep.
SetLatchEndsWait ==
  (loop_step = zzz /\ pc \in {"alarm_test", "woken"} /\ interval_alarm
     /\ pc' # pc /\ ~Restart)
    => pc' = "alarm_clear"

\* Every tick ends the sleep call, so the latch is tested after it.
TickEndsSleepCall == (pc = "deep_sleep" /\ Tick) => pc' = "woken"

\* A further interval boundary leaves a set latch set: it is not counted.
BoundaryKeepsLatch == (Tick /\ interval_alarm) => interval_alarm'

\* One hand-over to wake uses up the latch, however often it was set.
OneWakePerLatch == Leaves(zzz) => (~interval_alarm' /\ loop_step' = wake)

\* C27: no wake-up is lost and overruns are coalesced: when the latch is
\* set while the sequencer is still active, or between the latch test of
\* zzz and the sleep call, zzz still ends, at the latest after the next
\* tick and without a further full INTERVAL; and several interval
\* boundaries passed during one cycle give exactly one wake.
C27_NoLostWakeup ==
  /\ [][LatchKeptUntilWake /\ SetLatchEndsWait /\ TickEndsSleepCall
          /\ BoundaryKeepsLatch /\ OneWakePerLatch]_vars
  /\ ((loop_step = zzz /\ interval_alarm) ~> (loop_step = wake))

\* The processor is in the sleep call with the latch set: the tick handler
\* set it between the latch test and the sleep call.
C27_Witness ==
  /\ loop_step = zzz /\ pc = "deep_sleep"
  /\ interval_alarm

\* The timeout of the wait loop of state s.
TimeoutOf(s) ==
  CASE s = read_GPS -> GNSS_timeout
    [] s = start_LTC3225 -> CHG_timeout
    [] s = wait_LTC3225 -> TOPUP_timeout

AtLoopCondition == loop_step \in WaitStates /\ pc = "loop"

\* The clock has wrapped around since the loop started.
ClockWrapped == ms < tnow

\* The unsigned difference is the time that has passed since the loop
\* started, also after a wrap.
DifferenceIsElapsed == AtLoopCondition => Elapsed = waited

\* An iteration starts only before the timeout.
NoExtraIteration ==
  (AtLoopCondition /\ (ms' # ms \/ vbat_step' # vbat_step) /\ ~Restart)
    => waited < TimeoutOf(loop_step)

\* With the awaited signal absent and no low sample, the loop ends only at
\* or after the timeout.
NoEarlyExit ==
  (AtLoopCondition /\ pc' = "done" /\ ~LowVoltage(vbat') /\ ~Restart
     /\ (loop_step = read_GPS => fixType' # 3)
     /\ (loop_step = start_LTC3225 => ~PGOOD'))
    => waited >= TimeoutOf(loop_step)

\* C28: the three wait loops compare the unsigned difference
\* millis() - tnow, taken modulo the clock period, with their timeout, so
\* each loop measures the elapsed time and exits at its timeout also when
\* the clock wraps around to zero during the wait: never early, and never
\* after an extra clock period.
C28_WrapSafeTimeouts ==
  /\ []DifferenceIsElapsed
  /\ [][NoExtraIteration /\ NoEarlyExit]_vars

\* The top-up wait ended at its timeout after the clock had wrapped.
C28_Witness ==
  /\ loop_step = wait_LTC3225 /\ pc = "done"
  /\ ClockWrapped
  /\ ~LowVoltage(vbat)
  /\ waited >= TOPUP_timeout /\ Elapsed = waited

====
